---------------------------- MODULE Spec2Model ----------------------------
(***************************************************************************)
(* Model of the krustlet WASI workload runtime                             *)
(* (crates/wasi-provider/src/wasi_runtime.rs): the blocking worker thread  *)
(* spawned by WasiRuntime::spawn_wasmtime, the Runtime handle              *)
(* (stop / wait / exec), the one-shot interrupt handoff, the std mpsc      *)
(* command/response channel pair and the bounded tokio status channel.     *)
(* Also the Exec Gateway (crates/kubelet/src/webserver/mod.rs: handle_exec *)
(* and parse_exec_query) and the Command model's parsers (parse_command,   *)
(* parse_args), each under a specification of its own.                     *)
(***************************************************************************)
EXTENDS Naturals, Integers, Sequences, FiniteSets, TLC

\* ------------------------------------------------------------------ bounds
\* Number of tasks that may call Runtime::exec on the one handle.
NumCallers == 2
\* Total number of exec calls issued over a run.
MaxExecs == 2
\* Capacity of the bounded tokio status channel handed to WasiRuntime::new.
StatusCap == 1
\* Largest number of `&`-joined pairs in an exec query string.
MaxPairs == 3
\* Largest number of pieces (tokens and spaces) in a string-form command.
MaxCommandLen == 5
\* Largest number of declared parameters and of argument strings.
MaxParams == 2
MaxArgs == 3

Callers == 1..NumCallers
NoCaller == 0

\* ---------------------------------------------------------- status events
\* kubelet::container::Status, without its timestamp.
Running == [type |-> "Running", failed |-> FALSE, message |-> ""]
Terminated(f, m) == [type |-> "Terminated", failed |-> f, message |-> m]
NoStatus == [type |-> "None", failed |-> FALSE, message |-> ""]

\* ------------------------------------------------------- module under test
\* The module bytes and host environment are the worker's immutable input
\* (struct Data).  `fail` names the stage that fails for this input:
\*   "setup"       a try_clone / preopen_dir / ctx build error (lines 202-224)
\*   "load"        wasmtime::Module::new fails               (line 236)
\*   "link"        an import does not resolve                (lines 257-273)
\*   "instantiate" wasmtime::Instance::new fails             (line 294)
\*   "none"        the instance is created.
\* `start` is what instance.get_export("_start") yields: "none", "func" or
\* "global" (an export that is not a function); `run` is what the entry
\* point does when called: returns ("ok"), traps ("trap") or loops until
\* interrupted ("loop").
Module(f, s, r) == [fail |-> f, start |-> s, run |-> r]
Modules ==
    {Module(f, "none", "ok") : f \in {"setup", "load", "link", "instantiate"}}
    \cup {Module("none", "none", "ok"), Module("none", "global", "ok")}
    \cup {Module("none", "func", r) : r \in {"ok", "trap", "loop"}}

\* Exports of a command-serving module: declared parameter types and what a
\* call does ("add" returns the i32 sum, "boom" traps, "spin" loops until
\* interrupted).
Exports ==
    [add  |-> [params |-> <<"i32", "i32">>, run |-> "ok"],
     boom |-> [params |-> <<>>, run |-> "trap"],
     spin |-> [params |-> <<>>, run |-> "loop"]]

\* kubelet::exec::Command
Command(f, a) == [function |-> f, args |-> a]
NoCommand == Command("", <<>>)
Commands ==
    {Command("add", <<"1", "2">>), Command("add", <<"x", "2">>),
     Command("boom", <<>>), Command("spin", <<>>), Command("nope", <<>>)}

\* anyhow::Result<String>: Ok carries the lines of the message, Err the chain
\* of error messages, outermost first.
Ok(v) == [ok |-> TRUE, val |-> v]
Err(m) == [ok |-> FALSE, val |-> m]
NoResult == Err(<<>>)

\* ------------------------------------------------ argument coercion (pure)
\* Decimal strings the model draws arguments from, and their values.
Numerals == <<"0", "1", "2", "3", "4">>
IsNumeral(s) == \E i \in 1..Len(Numerals) : Numerals[i] = s
IntOf(s) == (CHOOSE i \in 1..Len(Numerals) : Numerals[i] = s) - 1

Val(ty, v) == [ty |-> ty, v |-> v]
NumericTypes == {"i32", "i64", "f32", "f64"}

\* parse_args: one string per declared parameter, in order; stops once the
\* parameters are filled.
RECURSIVE ParseArgsFrom(_, _, _, _)
ParseArgsFrom(params, args, i, values) ==
    IF i > Len(params) THEN Ok(values)
    ELSE IF i > Len(args) THEN Err(<<"Not enough arguments">>)
    ELSE IF params[i] \notin NumericTypes
         THEN Err(<<"Unsupported argument type">>)
    ELSE IF ~IsNumeral(args[i])
         THEN Err(<<IF params[i] \in {"f32", "f64"}
                    THEN "invalid float literal"
                    ELSE "invalid digit found in string">>)
    ELSE ParseArgsFrom(params, args, i + 1,
                       Append(values, Val(params[i], IntOf(args[i]))))

\* Mutant: surplus argument strings are rejected.
parse_args_exact(params, args) ==
    IF Len(args) > Len(params) THEN Err(<<"Too many arguments">>)
    ELSE ParseArgsFrom(params, args, 1, <<>>)

parse_args(params, args) == ParseArgsFrom(params, args, 1, <<>>)

\* stringify_val on the numeric values the model uses ("{}" formatting).
stringify_val(val) ==
    IF val.v >= 0 /\ val.v < Len(Numerals) THEN Numerals[val.v + 1]
    ELSE "<number>"

\* What the export returns when it runs to completion (the module's code).
ExportReturns(name, values) ==
    IF name = "add"
    THEN <<Val("i32", values[1].v + values[2].v)>>
    ELSE <<>>

\* values.join("\n"): the response is the sequence of rendered lines.
JoinValues(vals) == [i \in 1..Len(vals) |-> stringify_val(vals[i])]

\* instance.get_func(command.function)
HasFunc(name) == name \in DOMAIN Exports

\* Lines 393-426 up to the call: the error the command gets without the
\* export being called, or NoResult when the export is to be called.
\* The outer map_err (line 423) prefixes every error of the and_then chain.
Prepare(cmd) ==
    IF ~HasFunc(cmd.function)
    THEN Err(<<"No function found with name", cmd.function>>)
    ELSE LET a == parse_args(Exports[cmd.function].params, cmd.args)
         IN  IF a.ok THEN NoResult
             ELSE Err(<<"Error parsing the args">> \o a.val)

\* Lines 404-423: the result of func.call(&args) as the command's response.
CallOk(cmd) ==
    LET a == parse_args(Exports[cmd.function].params, cmd.args)
    IN  Ok(JoinValues(ExportReturns(cmd.function, a.val)))
CallTrap(why) ==
    Err(<<"Error parsing the args", "Error executing command", why>>)

\* Errors of Runtime::exec itself (lines 54 and 58).
SendError == Err(<<"Cannot send the exec command to the runtime">>)
RecvError == Err(<<"Cannot receive the exec response from the runtime">>)
IsChannelError(r) == r = SendError \/ r = RecvError

\* --------------------------------------------- command and query parsing
\* A string that is split is modelled as the sequence of its pieces: the
\* separators ("&", "=", " ") and the separator-free chunks between them, so
\* the empty string is <<>> and "command=add" is <<"command", "=", "add">>.

\* str::split(sep).collect(): the substrings between the separators; an
\* empty string, or one without the separator, yields exactly one piece.
RECURSIVE SplitFrom(_, _, _, _)
SplitFrom(s, sep, i, piece) ==
    IF i > Len(s) THEN <<piece>>
    ELSE IF s[i] = sep THEN <<piece>> \o SplitFrom(s, sep, i + 1, <<>>)
    ELSE SplitFrom(s, sep, i + 1, Append(piece, s[i]))

split(s, sep) == SplitFrom(s, sep, 1, <<>>)

\* kubelet::exec::parse_command
parse_command(command) ==
    LET tokens == split(command, " ")
    IN  IF Len(tokens) < 1
        THEN Err(<<"No function specified in the command">>)
        ELSE Ok(Command(tokens[1], SubSeq(tokens, 2, Len(tokens))))

\* Option<String>
None == [some |-> FALSE, value |-> <<>>]
Some(v) == [some |-> TRUE, value |-> v]

\* kubelet::exec::CommandOptions as parse_exec_query builds it.
CommandOptions(command) ==
    [command |-> command, stdin |-> FALSE, stdout |-> FALSE,
     stderr |-> FALSE, tty |-> FALSE]

\* The loop state of parse_exec_query after a pair, or its early return.
Continue(function, args) ==
    [ok |-> TRUE, err |-> <<>>, function |-> function, args |-> args]
Bail(message) ==
    [ok |-> FALSE, err |-> <<message>>, function |-> None, args |-> <<>>]

\* Mutant: a pair without "=" is given the empty value.
ParseExecQueryPairDefaultsValue(pair, function, args) ==
    LET keyvalue == split(pair, "=")
        key == keyvalue[1]
        value == IF Len(keyvalue) < 2 THEN <<>> ELSE keyvalue[2]
    IN  IF key = <<"command">> /\ ~function.some
        THEN Continue(Some(value), args)
        ELSE IF key = <<"command">> /\ function.some
        THEN Continue(function, Append(args, value))
        ELSE Continue(function, args)

\* Mutant: an argument value already collected is not collected again.
ParseExecQueryPairDedups(pair, function, args) ==
    LET keyvalue == split(pair, "=")
    IN  IF Len(keyvalue) < 2 THEN Bail("Cannot get the query value")
        ELSE LET key == keyvalue[1]
                 value == keyvalue[2]
             IN  IF key = <<"command">> /\ ~function.some
                 THEN Continue(Some(value), args)
                 ELSE IF /\ key = <<"command">>
                         /\ \A i \in 1..Len(args) : args[i] # value
                 THEN Continue(function, Append(args, value))
                 ELSE Continue(function, args)

\* Lines 169-183: one turn of the loop over the pairs.
ParseExecQueryPair(pair, function, args) ==
    LET keyvalue == split(pair, "=")
    IN  IF Len(keyvalue) < 1 THEN Bail("Cannot get the query key")
        ELSE IF Len(keyvalue) < 2 THEN Bail("Cannot get the query value")
        ELSE LET key == keyvalue[1]
                 value == keyvalue[2]
             IN  IF key = <<"command">> /\ ~function.some
                 THEN Continue(Some(value), args)
                 ELSE IF key = <<"command">> /\ function.some
                 THEN Continue(function, Append(args, value))
                 ELSE Continue(function, args)

\* Lines 168-200: the loop from pair i on, then the final map/ok_or_else.
RECURSIVE ParseExecQueryFrom(_, _, _, _)
ParseExecQueryFrom(pairs, i, function, args) ==
    IF i > Len(pairs)
    THEN IF function.some
         THEN Ok(CommandOptions(Command(function.value, args)))
         ELSE Err(<<"Error while parsing the exec query string">>)
    ELSE LET step == ParseExecQueryPair(pairs[i], function, args)
         IN  IF ~step.ok THEN Err(step.err)
             ELSE ParseExecQueryFrom(pairs, i + 1, step.function, step.args)

\* webserver::parse_exec_query
parse_exec_query(q) == ParseExecQueryFrom(split(q, "&"), 1, None, <<>>)

\* -------------------------------------------------------------------- state
VARIABLES
    module,        \* the worker's immutable input (Data), drawn at Init
    wpc,           \* position of the spawn_blocking closure (the worker)
    wret,          \* what the closure returned: "none", "ok", "err", "panic"
    sending,       \* status the send helper is delivering, or NoStatus
    afterSend,     \* where the worker continues once send returns
    statusChan,    \* bounded tokio channel of Status events
    statusOpen,    \* the status Receiver has not been closed or dropped
    emitted,       \* history: every Status the send helper delivered
    oneshot,       \* interrupt handoff: "empty", "sent", "dropped", "taken"
    handoffs,      \* history: number of interrupt_tx.send calls
    spc,           \* start(): "awaiting", "handle" (Ok) or "error" (Err)
    interrupted,   \* the engine's interrupt flag (InterruptHandle::interrupt)
    dropped,       \* the Runtime returned by start() has been dropped
    cmdRx,         \* worker still owns command_rx
    respTx,        \* worker still owns response_tx
    cmdChan,       \* std mpsc channel of Commands, each tagged with its call
    respChan,      \* std mpsc channel of responses, tagged likewise
    cur,           \* the command the dispatch loop is servicing
    reply,         \* the result the dispatch loop is about to send
    txLock,        \* holder of the command_tx mutex, or NoCaller
    rxLock,        \* holder of the response_rx mutex, or NoCaller
    cpc,           \* per caller: position inside Runtime::exec
    ccmd,          \* per caller: the Command it has sent
    cid,           \* per caller: send number of its command (0: not sent)
    nexec,         \* number of exec calls issued
    nsent,         \* number of Commands sent: the n-th send is tagged n
    last,          \* history: the exec call that returned last
    recvLog,       \* history: tags in the order the worker took them
    doneLog,       \* history: tags of the responses in delivery order
    sandboxRan,    \* history: the worker has handed the module to the engine
    startCalls,    \* history: outcome of each func.call on the entry point
    joined,        \* the JoinHandle's output was taken by a wait()
    waitpc,        \* wait(): "idle", "waiting", "panicked" or "hung"
    waited,        \* what the wait() that joined returned: "ok", "err"
    query,         \* handle_exec: the raw query string of the request
    gpc,           \* handle_exec: "idle", "parse", "exec", "forward", "done"
    opts,          \* handle_exec: what parse_exec_query returned
    execResult,    \* handle_exec: what provider.exec returned
    frames,        \* history: the messages written to the WebSocket
    peerOpen,      \* the WebSocket peer has not closed the connection
    cmdline,       \* parse_command: the string-form command
    parsed,        \* parse_command: its result, Pending before the call
    funcType,      \* parse_args: the parameter types of the export
    argStrs,       \* parse_args: the argument strings of the Command
    values         \* parse_args: its result, Pending before the call

\* The workload runtime (wasi_runtime.rs).
runtimeVars == <<module, wpc, wret, sending, afterSend, statusChan,
                 statusOpen, emitted, oneshot, handoffs, spc, interrupted,
                 dropped, cmdRx, respTx, cmdChan, respChan, cur, reply,
                 txLock, rxLock, cpc, ccmd, cid, nexec, nsent, last, recvLog,
                 doneLog, sandboxRan, startCalls, joined, waitpc, waited>>
\* The Exec Gateway (webserver/mod.rs) and the Command model (exec/mod.rs,
\* parse_args).
gatewayVars == <<query, gpc, opts, execResult, frames, peerOpen>>
commandVars == <<cmdline, parsed>>
coerceVars == <<funcType, argStrs, values>>
frontVars == <<gatewayVars, commandVars, coerceVars>>

vars == <<runtimeVars, frontVars>>

workerVars == <<wpc, wret, sending, afterSend, cmdRx, respTx, cur, reply,
                sandboxRan, startCalls>>
statusVars == <<statusChan, statusOpen, emitted>>
chanVars == <<cmdChan, respChan>>
callerVars == <<txLock, rxLock, cpc, ccmd, cid, nexec, nsent, last, doneLog>>
waitVars == <<joined, waitpc, waited>>

NoCall == [id |-> 0, cmd |-> NoCommand]
NoReturn == [caller |-> NoCaller, cmd |-> NoCommand, id |-> 0,
             res |-> NoResult, got |-> 0]

\* A result that has not been produced yet.
Pending == [ok |-> FALSE, val |-> <<"pending">>]

\* No exec request is being handled by the gateway.
GatewayIdle ==
    /\ query = <<>>
    /\ gpc = "idle"
    /\ opts = Pending
    /\ execResult = Pending
    /\ frames = <<>>
    /\ peerOpen = TRUE

\* No string-form command is being parsed.
CommandIdle ==
    /\ cmdline = <<>>
    /\ parsed = Pending

\* No argument list is being coerced outside the dispatch loop.
CoerceIdle ==
    /\ funcType = <<>>
    /\ argStrs = <<>>
    /\ values = Pending

\* The state right after WasiRuntime::start has spawned the worker.
RuntimeInit ==
    /\ module \in Modules
    /\ wpc = "setup"
    /\ wret = "none"
    /\ sending = NoStatus
    /\ afterSend = "none"
    /\ statusChan = <<>>
    /\ statusOpen = TRUE
    /\ emitted = <<>>
    /\ oneshot = "empty"
    /\ handoffs = 0
    /\ spc = "awaiting"
    /\ interrupted = FALSE
    /\ dropped = FALSE
    /\ cmdRx = TRUE
    /\ respTx = TRUE
    /\ cmdChan = <<>>
    /\ respChan = <<>>
    /\ cur = NoCall
    /\ reply = NoResult
    /\ txLock = NoCaller
    /\ rxLock = NoCaller
    /\ cpc = [c \in Callers |-> "idle"]
    /\ ccmd = [c \in Callers |-> NoCommand]
    /\ cid = [c \in Callers |-> 0]
    /\ nexec = 0
    /\ nsent = 0
    /\ last = NoReturn
    /\ recvLog = <<>>
    /\ doneLog = <<>>
    /\ sandboxRan = FALSE
    /\ startCalls = <<>>
    /\ joined = FALSE
    /\ waitpc = "idle"
    /\ waited = "none"

Init ==
    /\ RuntimeInit
    /\ GatewayIdle
    /\ CommandIdle
    /\ CoerceIdle

\* The handle-side endpoints (command_tx, response_rx) live in the
\* spawn_wasmtime future until start() returns, then in the Runtime.
HandleLive == spc = "handle" /\ ~dropped
HandleEndsAlive == spc = "awaiting" \/ HandleLive

\* ----------------------------------------------------------- worker thread
\* The closure returns r: its locals (interrupt_tx if unsent, command_rx,
\* response_tx) are dropped; a dropped Receiver discards what is buffered.
WorkerReturns(r) ==
    /\ wpc' = "done"
    /\ wret' = r
    /\ sending' = NoStatus
    /\ afterSend' = "none"
    /\ cmdRx' = FALSE
    /\ respTx' = FALSE
    /\ cmdChan' = <<>>
    /\ oneshot' = IF oneshot = "empty" THEN "dropped" ELSE oneshot
    /\ cur' = NoCall
    /\ reply' = NoResult

\* The worker calls send(status_sender.clone(), name, st, cx) and continues
\* at `next` once it returns.
BeginSend(st, next) ==
    /\ wpc' = "send_poll"
    /\ sending' = st
    /\ afterSend' = next

\* Mutant: the module is handed to the engine before the interrupt handle
\* is sent back.
WorkerSetupSkipsHandoff ==
    /\ wpc = "setup"
    /\ IF module.fail = "setup"
       THEN /\ WorkerReturns("err")
            /\ UNCHANGED <<respChan, sandboxRan, startCalls>>
       ELSE /\ wpc' = "load"
            /\ UNCHANGED <<wret, sending, afterSend, cmdRx, respTx, cmdChan,
                           oneshot, cur, reply, respChan, sandboxRan,
                           startCalls>>
    /\ UNCHANGED <<module, frontVars, statusVars, handoffs, spc, interrupted,
                   dropped, callerVars, recvLog, waitVars>>

\* Lines 195-229: build both WASI contexts, the engine and the store.
WorkerSetup ==
    /\ wpc = "setup"
    /\ IF module.fail = "setup"
       THEN /\ WorkerReturns("err")
            /\ UNCHANGED <<respChan, sandboxRan, startCalls>>
       ELSE /\ wpc' = "handoff"
            /\ UNCHANGED <<wret, sending, afterSend, cmdRx, respTx, cmdChan,
                           oneshot, cur, reply, respChan, sandboxRan,
                           startCalls>>
    /\ UNCHANGED <<module, frontVars, statusVars, handoffs, spc, interrupted,
                   dropped, callerVars, recvLog, waitVars>>

\* Lines 230-232: interrupt_tx.send(interrupt).
WorkerHandoff ==
    /\ wpc = "handoff"
    /\ oneshot = "empty"
    /\ oneshot' = "sent"
    /\ handoffs' = handoffs + 1
    /\ wpc' = "load"
    /\ UNCHANGED <<module, frontVars, wret, sending, afterSend, statusVars,
                   spc, interrupted, dropped, cmdRx, respTx, chanVars, cur,
                   reply, callerVars, recvLog, sandboxRan, startCalls,
                   waitVars>>

\* Mutant: a failing stage returns its error without reporting a status.
WorkerStageSilent(here, message, onward) ==
    /\ wpc = here
    /\ IF module.fail = here
       THEN wpc' = "ret_err" /\ UNCHANGED <<sending, afterSend>>
       ELSE onward
    /\ sandboxRan' = TRUE
    /\ UNCHANGED <<module, frontVars, startCalls, wret, statusVars, oneshot,
                   handoffs, spc, interrupted, dropped, cmdRx, respTx,
                   chanVars, cur, reply, callerVars, recvLog, waitVars>>

\* A stage of lines 236-314 that either fails (send Terminated{failed:true},
\* then return Err) or moves on.
WorkerStage(here, message, onward) ==
    /\ wpc = here
    /\ IF module.fail = here
       THEN BeginSend(Terminated(TRUE, message), "ret_err")
       ELSE onward
    /\ sandboxRan' = TRUE
    /\ UNCHANGED <<module, frontVars, startCalls, wret, statusVars, oneshot,
                   handoffs, spc, interrupted, dropped, cmdRx, respTx,
                   chanVars, cur, reply, callerVars, recvLog, waitVars>>

\* Line 236: wasmtime::Module::new.
WorkerLoad ==
    WorkerStage("load", "unable to create module",
                wpc' = "link" /\ UNCHANGED <<sending, afterSend>>)

\* Lines 257-292: resolve the imports.
WorkerLink ==
    WorkerStage("link", "unable to load module",
                wpc' = "instantiate" /\ UNCHANGED <<sending, afterSend>>)

\* Lines 294-326: wasmtime::Instance::new, then send Status::Running.
WorkerInstantiate ==
    WorkerStage("instantiate", "unable to instantiate module",
                BeginSend(Running, "get_export"))

\* Mutant: the dispatch loop is entered whether or not _start exists.
WorkerGetExportAlwaysServes ==
    /\ wpc = "get_export"
    /\ wpc' = "recv"
    /\ UNCHANGED <<module, frontVars, wret, sending, afterSend, statusVars,
                   oneshot, handoffs, spc, interrupted, dropped, cmdRx,
                   respTx, chanVars, cur, reply, callerVars, recvLog,
                   sandboxRan, startCalls, waitVars>>

\* Lines 327-329: instance.get_export("_start") picks the mode.
WorkerGetExport ==
    /\ wpc = "get_export"
    /\ wpc' = IF module.start = "none" THEN "recv" ELSE "drop_command_rx"
    /\ UNCHANGED <<module, frontVars, wret, sending, afterSend, statusVars,
                   oneshot, handoffs, spc, interrupted, dropped, cmdRx,
                   respTx, chanVars, cur, reply, callerVars, recvLog,
                   sandboxRan, startCalls, waitVars>>

\* Mutant: command_rx is kept while the entry point runs.
WorkerKeepsCommandRx ==
    /\ wpc = "drop_command_rx"
    /\ wpc' = "drop_response_tx"
    /\ UNCHANGED <<module, frontVars, wret, sending, afterSend, statusVars,
                   oneshot, handoffs, spc, interrupted, dropped, cmdRx,
                   respTx, chanVars, cur, reply, callerVars, recvLog,
                   sandboxRan, startCalls, waitVars>>

\* Line 332: drop(command_rx).
WorkerDropCommandRx ==
    /\ wpc = "drop_command_rx"
    /\ cmdRx' = FALSE
    /\ cmdChan' = <<>>
    /\ wpc' = "drop_response_tx"
    /\ UNCHANGED <<module, frontVars, wret, sending, afterSend, statusVars,
                   oneshot, handoffs, spc, interrupted, dropped, respTx,
                   respChan, cur, reply, callerVars, recvLog, sandboxRan,
                   startCalls, waitVars>>

\* Mutant: response_tx is kept while the entry point runs.
WorkerKeepsResponseTx ==
    /\ wpc = "drop_response_tx"
    /\ IF module.start = "func"
       THEN wpc' = "call" /\ UNCHANGED <<sending, afterSend>>
       ELSE BeginSend(Terminated(TRUE, "_start import was not a function"),
                      "ret_err")
    /\ UNCHANGED <<module, frontVars, wret, statusVars, oneshot, handoffs,
                   spc, interrupted, dropped, cmdRx, respTx, chanVars, cur,
                   reply, callerVars, recvLog, sandboxRan, startCalls,
                   waitVars>>

\* Lines 333-353: drop(response_tx), then check that _start is a function.
WorkerDropResponseTx ==
    /\ wpc = "drop_response_tx"
    /\ respTx' = FALSE
    /\ IF module.start = "func"
       THEN wpc' = "call" /\ UNCHANGED <<sending, afterSend>>
       ELSE BeginSend(Terminated(TRUE, "_start import was not a function"),
                      "ret_err")
    /\ UNCHANGED <<module, frontVars, wret, statusVars, oneshot, handoffs,
                   spc, interrupted, dropped, cmdRx, chanVars, cur, reply,
                   callerVars, recvLog, sandboxRan, startCalls, waitVars>>

\* What a call into the instance does.  The engine checks the interrupt flag
\* at function entry and at loop back-edges: a call made or running with the
\* flag set traps and consumes the flag; "loop" never returns otherwise.
CallOutcome(run) ==
    IF interrupted THEN "interrupt"
    ELSE IF run = "loop" THEN "blocked"
    ELSE run

\* Mutant: a trapped entry point is reported like a completed one.
WorkerCallStartIgnoresTrap ==
    /\ wpc = "call"
    /\ LET out == CallOutcome(module.run)
       IN  /\ out # "blocked"
           /\ BeginSend(Terminated(FALSE, "Module run completed"), "ret_ok")
           /\ startCalls' = Append(startCalls, out)
    /\ interrupted' = FALSE
    /\ UNCHANGED <<module, frontVars, wret, statusVars, oneshot, handoffs,
                   spc, dropped, cmdRx, respTx, chanVars, cur, reply,
                   callerVars, recvLog, sandboxRan, waitVars>>

\* Lines 354-385: func.call(&[]) on the entry point and the final status.
WorkerCallStart ==
    /\ wpc = "call"
    /\ LET out == CallOutcome(module.run)
       IN  /\ out # "blocked"
           /\ IF out = "ok"
              THEN BeginSend(Terminated(FALSE, "Module run completed"),
                             "ret_ok")
              ELSE BeginSend(Terminated(TRUE, "unable to run module"),
                             "ret_err")
           /\ startCalls' = Append(startCalls, out)
    /\ interrupted' = FALSE
    /\ UNCHANGED <<module, frontVars, wret, statusVars, oneshot, handoffs,
                   spc, dropped, cmdRx, respTx, chanVars, cur, reply,
                   callerVars, recvLog, sandboxRan, waitVars>>

\* Mutant: an error path falls through to the closure's final Ok(()).
WorkerReturnAlwaysOk ==
    /\ wpc \in {"ret_err", "ret_ok"}
    /\ WorkerReturns("ok")
    /\ UNCHANGED <<module, frontVars, statusVars, handoffs, spc, interrupted,
                   dropped, respChan, callerVars, recvLog, sandboxRan,
                   startCalls, waitVars>>

\* Lines 253, 290, 312, 351, 371 (return Err) and 437 (Ok(())).
WorkerReturn ==
    /\ wpc \in {"ret_err", "ret_ok"}
    /\ WorkerReturns(IF wpc = "ret_ok" THEN "ok" ELSE "err")
    /\ UNCHANGED <<module, frontVars, statusVars, handoffs, spc, interrupted,
                   dropped, respChan, callerVars, recvLog, sandboxRan,
                   startCalls, waitVars>>

\* ------------------------------------------- dispatch loop (lines 390-433)
\* Mutant: a non-blocking receive (try_recv) in place of recv.
RecvReadyNonBlocking(chan, senderAlive) == TRUE

\* std mpsc recv: a buffered message if there is one, Err once the channel
\* is empty and the Sender is gone, blocked otherwise.
RecvReady(chan, senderAlive) == chan # <<>> \/ ~senderAlive

\* Lines 390-398: command_rx.recv(), the export lookup and parse_args.
WorkerRecv ==
    /\ wpc = "recv"
    /\ RecvReady(cmdChan, HandleEndsAlive)
    /\ IF cmdChan # <<>>
       THEN /\ cur' = Head(cmdChan)
            /\ cmdChan' = Tail(cmdChan)
            /\ recvLog' = Append(recvLog, Head(cmdChan).id)
            /\ LET early == Prepare(Head(cmdChan).cmd)
               IN  IF early = NoResult
                   THEN wpc' = "invoke" /\ reply' = NoResult
                   ELSE wpc' = "respond" /\ reply' = early
            /\ UNCHANGED <<wret, sending, afterSend, cmdRx, respTx, oneshot>>
       ELSE \* line 433: Err("Command channel dropped")
            /\ WorkerReturns("err")
            /\ UNCHANGED recvLog
    /\ UNCHANGED <<module, frontVars, statusVars, handoffs, spc, interrupted,
                   dropped, respChan, callerVars, sandboxRan, startCalls,
                   waitVars>>

\* Mutant: an interrupted export ends the workload like an interrupted
\* entry point.
WorkerInvokeInterruptExits ==
    /\ wpc = "invoke"
    /\ LET out == CallOutcome(Exports[cur.cmd.function].run)
       IN  /\ out # "blocked"
           /\ IF out = "interrupt"
              THEN /\ BeginSend(Terminated(TRUE, "unable to run module"),
                                "ret_err")
                   /\ UNCHANGED reply
              ELSE /\ reply' = IF out = "ok" THEN CallOk(cur.cmd)
                               ELSE CallTrap("unreachable")
                   /\ wpc' = "respond"
                   /\ UNCHANGED <<sending, afterSend>>
    /\ interrupted' = FALSE
    /\ UNCHANGED <<module, frontVars, wret, statusVars, oneshot, handoffs,
                   spc, dropped, cmdRx, respTx, chanVars, cur, callerVars,
                   recvLog, sandboxRan, startCalls, waitVars>>

\* Mutant: a trap of the export is propagated out of the loop with `?`.
WorkerInvokeFatalTrap ==
    /\ wpc = "invoke"
    /\ LET out == CallOutcome(Exports[cur.cmd.function].run)
       IN  /\ out # "blocked"
           /\ IF out = "ok"
              THEN /\ reply' = CallOk(cur.cmd)
                   /\ wpc' = "respond"
                   /\ UNCHANGED <<wret, sending, afterSend, cmdRx, respTx,
                                  cmdChan, oneshot, cur>>
              ELSE WorkerReturns("err")
    /\ interrupted' = FALSE
    /\ UNCHANGED <<module, frontVars, statusVars, handoffs, spc, dropped,
                   respChan, callerVars, recvLog, sandboxRan, startCalls,
                   waitVars>>

\* Lines 404-419: func.call(&args) on the looked-up export.
WorkerInvoke ==
    /\ wpc = "invoke"
    /\ LET out == CallOutcome(Exports[cur.cmd.function].run)
       IN  /\ out # "blocked"
           /\ reply' = IF out = "ok" THEN CallOk(cur.cmd)
                       ELSE IF out = "interrupt" THEN CallTrap("interrupt")
                       ELSE CallTrap("unreachable")
    /\ interrupted' = FALSE
    /\ wpc' = "respond"
    /\ UNCHANGED <<module, frontVars, wret, sending, afterSend, statusVars,
                   oneshot, handoffs, spc, dropped, cmdRx, respTx, chanVars,
                   cur, callerVars, recvLog, sandboxRan, startCalls,
                   waitVars>>

\* Mutant: an error result is sent and then ends the dispatch loop.
WorkerRespondFatalError ==
    /\ wpc = "respond"
    /\ IF HandleEndsAlive /\ reply.ok
       THEN /\ respChan' = Append(respChan, [id |-> cur.id, res |-> reply])
            /\ wpc' = "recv"
            /\ cur' = NoCall
            /\ reply' = NoResult
            /\ UNCHANGED <<wret, sending, afterSend, cmdRx, respTx, cmdChan,
                           oneshot>>
       ELSE /\ WorkerReturns("err")
            /\ respChan' = IF HandleEndsAlive
                           THEN Append(respChan, [id |-> cur.id, res |-> reply])
                           ELSE respChan
    /\ UNCHANGED <<module, frontVars, statusVars, handoffs, spc, interrupted,
                   dropped, callerVars, recvLog, sandboxRan, startCalls,
                   waitVars>>

\* Mutant: only a successful result is sent back.
WorkerRespondDropsErrors ==
    /\ wpc = "respond"
    /\ IF HandleEndsAlive
       THEN /\ respChan' = IF reply.ok
                           THEN Append(respChan,
                                       [id |-> cur.id, res |-> reply])
                           ELSE respChan
            /\ wpc' = "recv"
            /\ cur' = NoCall
            /\ reply' = NoResult
            /\ UNCHANGED <<wret, sending, afterSend, cmdRx, respTx, cmdChan,
                           oneshot>>
       ELSE /\ WorkerReturns("err")
            /\ UNCHANGED respChan
    /\ UNCHANGED <<module, frontVars, statusVars, handoffs, spc, interrupted,
                   dropped, callerVars, recvLog, sandboxRan, startCalls,
                   waitVars>>

\* Lines 428-430: response_tx.send(result)?
WorkerRespond ==
    /\ wpc = "respond"
    /\ IF HandleEndsAlive
       THEN /\ respChan' = Append(respChan, [id |-> cur.id, res |-> reply])
            /\ wpc' = "recv"
            /\ cur' = NoCall
            /\ reply' = NoResult
            /\ UNCHANGED <<wret, sending, afterSend, cmdRx, respTx, cmdChan,
                           oneshot>>
       ELSE \* Err("Unable to send the command response")
            /\ WorkerReturns("err")
            /\ UNCHANGED respChan
    /\ UNCHANGED <<module, frontVars, statusVars, handoffs, spc, interrupted,
                   dropped, callerVars, recvLog, sandboxRan, startCalls,
                   waitVars>>

\* --------------------------------------- status delivery (lines 445-459)
\* sender.poll_ready(cx): Ready(Ok) when the channel has room, Ready(Err)
\* when the Receiver is closed, Pending when full.  Anything but Ready(Ok)
\* goes round the loop again.
PollReady == statusOpen /\ Len(statusChan) < StatusCap

\* Mutant: an event that finds the channel full is dropped.
WorkerPollReadyDropsWhenFull ==
    /\ wpc = "send_poll"
    /\ IF PollReady
       THEN wpc' = "send_try" /\ UNCHANGED <<sending, afterSend>>
       ELSE IF statusOpen
       THEN wpc' = afterSend /\ sending' = NoStatus /\ afterSend' = "none"
       ELSE wpc' = "send_poll" /\ UNCHANGED <<sending, afterSend>>
    /\ UNCHANGED <<module, frontVars, wret, statusVars, oneshot, handoffs,
                   spc, interrupted, dropped, cmdRx, respTx, chanVars, cur,
                   reply, callerVars, recvLog, sandboxRan, startCalls,
                   waitVars>>

\* Mutant: the helper returns when the receiver shows as closed.
WorkerPollReadyGivesUpWhenClosed ==
    /\ wpc = "send_poll"
    /\ IF PollReady
       THEN wpc' = "send_try" /\ UNCHANGED <<sending, afterSend>>
       ELSE IF ~statusOpen
       THEN wpc' = afterSend /\ sending' = NoStatus /\ afterSend' = "none"
       ELSE wpc' = "send_poll" /\ UNCHANGED <<sending, afterSend>>
    /\ UNCHANGED <<module, frontVars, wret, statusVars, oneshot, handoffs,
                   spc, interrupted, dropped, cmdRx, respTx, chanVars, cur,
                   reply, callerVars, recvLog, sandboxRan, startCalls,
                   waitVars>>

\* Lines 446-458: one turn of the loop around sender.poll_ready(cx).
WorkerPollReady ==
    /\ wpc = "send_poll"
    /\ wpc' = IF PollReady THEN "send_try" ELSE "send_poll"
    /\ UNCHANGED <<module, frontVars, wret, sending, afterSend, statusVars,
                   oneshot, handoffs, spc, interrupted, dropped, cmdRx,
                   respTx, chanVars, cur, reply, callerVars, recvLog,
                   sandboxRan, startCalls, waitVars>>

\* sender.try_send(status).expect(..) after a successful poll_ready.  If the
\* Receiver was closed in between, the library either reports Closed (the
\* expect panics the thread) or accepts the message into the closed channel.
WorkerTrySend ==
    /\ wpc = "send_try"
    /\ \/ /\ statusOpen
          /\ statusChan' = Append(statusChan, sending)
          /\ emitted' = Append(emitted, sending)
          /\ wpc' = afterSend
          /\ sending' = NoStatus
          /\ afterSend' = "none"
          /\ UNCHANGED <<wret, cmdRx, respTx, cmdChan, oneshot, cur, reply>>
       \/ /\ ~statusOpen
          /\ emitted' = Append(emitted, sending)
          /\ wpc' = afterSend
          /\ sending' = NoStatus
          /\ afterSend' = "none"
          /\ UNCHANGED <<statusChan, wret, cmdRx, respTx, cmdChan, oneshot,
                         cur, reply>>
       \/ /\ ~statusOpen
          /\ WorkerReturns("panic")
          /\ UNCHANGED <<statusChan, emitted>>
    /\ UNCHANGED <<module, frontVars, statusOpen, handoffs, spc, interrupted,
                   dropped, respChan, callerVars, recvLog, sandboxRan,
                   startCalls, waitVars>>

\* The external status tracker takes the next event.
StatusRecv ==
    /\ statusOpen
    /\ statusChan # <<>>
    /\ statusChan' = Tail(statusChan)
    /\ UNCHANGED <<module, frontVars, workerVars, statusOpen, emitted,
                   oneshot, handoffs, spc, interrupted, dropped, chanVars,
                   callerVars, recvLog, waitVars>>

\* The external status tracker closes or drops its Receiver.
StatusClose ==
    /\ statusOpen
    /\ statusOpen' = FALSE
    /\ statusChan' = <<>>
    /\ UNCHANGED <<module, frontVars, workerVars, emitted, oneshot, handoffs,
                   spc, interrupted, dropped, chanVars, callerVars, recvLog,
                   waitVars>>

\* ------------------------------------------------- start (lines 147-172)
\* Mutant: start() hands out a Runtime although the handoff failed.
StartReturnIgnoresHandoffError ==
    /\ spc = "awaiting"
    /\ oneshot \in {"sent", "dropped"}
    /\ spc' = "handle"
    /\ oneshot' = IF oneshot = "sent" THEN "taken" ELSE oneshot
    /\ UNCHANGED <<module, frontVars, workerVars, statusVars, handoffs,
                   interrupted, dropped, chanVars, callerVars, recvLog,
                   waitVars>>

\* Line 440: interrupt_rx.await? -- Ok with the handle once the worker has
\* sent the interrupt, Err if the worker dropped interrupt_tx unsent.  On Err
\* the locals command_tx and response_rx are dropped with the future.
StartReturn ==
    /\ spc = "awaiting"
    /\ oneshot \in {"sent", "dropped"}
    /\ IF oneshot = "sent"
       THEN spc' = "handle" /\ oneshot' = "taken"
       ELSE spc' = "error" /\ oneshot' = oneshot
    /\ UNCHANGED <<module, frontVars, workerVars, statusVars, handoffs,
                   interrupted, dropped, chanVars, callerVars, recvLog,
                   waitVars>>

\* ------------------------------------------- Runtime::stop (lines 35-38)
Stop ==
    /\ HandleLive
    /\ interrupted' = TRUE
    /\ UNCHANGED <<module, frontVars, workerVars, statusVars, oneshot,
                   handoffs, spc, dropped, chanVars, callerVars, recvLog,
                   waitVars>>

\* ------------------------------------------- Runtime::wait (lines 40-43)
\* (&mut self.handle).await: the JoinHandle is polled.  Polling it again
\* after it has yielded its output is outside the Future contract: the poll
\* panics or never completes.
WaitBegin ==
    /\ HandleLive
    /\ waitpc = "idle"
    /\ IF joined
       THEN waitpc' \in {"panicked", "hung"}
       ELSE waitpc' = "waiting"
    /\ UNCHANGED <<module, frontVars, workerVars, statusVars, oneshot,
                   handoffs, spc, interrupted, dropped, chanVars, callerVars,
                   recvLog, joined, waited>>

\* The join completes: `??` turns a panic (JoinError) or the closure's Err
\* into wait()'s Err.
WaitJoin ==
    /\ waitpc = "waiting"
    /\ wpc = "done"
    /\ joined' = TRUE
    /\ waited' = IF wret = "ok" THEN "ok" ELSE "err"
    /\ waitpc' = "idle"
    /\ UNCHANGED <<module, frontVars, workerVars, statusVars, oneshot,
                   handoffs, spc, interrupted, dropped, chanVars, callerVars,
                   recvLog>>

\* ------------------------------------------- Runtime::exec (lines 48-61)
\* Mutant: the channel ends are used without mutual exclusion.
LockFreeAlways(lock) == TRUE

\* tokio::sync::Mutex::lock().await completes only while nobody holds it.
LockFree(lock) == lock = NoCaller

\* Line 48: a task calls exec(command) on the handle.  The command is an
\* opaque argument until line 53 reads it, so it is drawn there.
ExecCall(c) ==
    /\ HandleLive
    /\ cpc[c] = "idle"
    /\ nexec < MaxExecs
    /\ cpc' = [cpc EXCEPT ![c] = "lock_tx"]
    /\ nexec' = nexec + 1
    /\ UNCHANGED <<module, frontVars, workerVars, statusVars, oneshot,
                   handoffs, spc, interrupted, dropped, chanVars, txLock,
                   rxLock, ccmd, cid, nsent, last, doneLog, recvLog,
                   waitVars>>

\* Line 49: it takes the command_tx mutex.
ExecLockTx(c) ==
    /\ cpc[c] = "lock_tx"
    /\ LockFree(txLock)
    /\ txLock' = c
    /\ cpc' = [cpc EXCEPT ![c] = "lock_rx"]
    /\ UNCHANGED <<module, frontVars, workerVars, statusVars, oneshot,
                   handoffs, spc, interrupted, dropped, chanVars, rxLock,
                   ccmd, cid, nexec, nsent, last, doneLog, recvLog, waitVars>>

\* Line 50: it takes the response_rx mutex.
ExecLockRx(c) ==
    /\ cpc[c] = "lock_rx"
    /\ LockFree(rxLock)
    /\ rxLock' = c
    /\ cpc' = [cpc EXCEPT ![c] = "send"]
    /\ UNCHANGED <<module, frontVars, workerVars, statusVars, oneshot,
                   handoffs, spc, interrupted, dropped, chanVars, txLock,
                   ccmd, cid, nexec, nsent, last, doneLog, recvLog, waitVars>>

\* exec returns r (taken from the response tagged `got`, 0 for none): both
\* guards are dropped.
ExecReturns(c, r, got) ==
    /\ last' = [caller |-> c, cmd |-> ccmd[c], id |-> cid[c], res |-> r,
                got |-> got]
    /\ cpc' = [cpc EXCEPT ![c] = "idle"]
    /\ ccmd' = [ccmd EXCEPT ![c] = NoCommand]
    /\ cid' = [cid EXCEPT ![c] = 0]
    /\ txLock' = NoCaller
    /\ rxLock' = NoCaller

\* Lines 52-54: command_tx.send(command) fails iff command_rx is dropped
\* (the command is then dropped with the error).
ExecSend(c, cmd) ==
    /\ cpc[c] = "send"
    /\ IF cmdRx
       THEN /\ cmdChan' = Append(cmdChan, [id |-> nsent + 1, cmd |-> cmd])
            /\ nsent' = nsent + 1
            /\ ccmd' = [ccmd EXCEPT ![c] = cmd]
            /\ cid' = [cid EXCEPT ![c] = nsent + 1]
            /\ cpc' = [cpc EXCEPT ![c] = "recv"]
            /\ UNCHANGED <<txLock, rxLock, last>>
       ELSE /\ ExecReturns(c, SendError, 0)
            /\ UNCHANGED <<cmdChan, nsent>>
    /\ UNCHANGED <<module, frontVars, workerVars, statusVars, oneshot,
                   handoffs, spc, interrupted, dropped, respChan, nexec,
                   doneLog, recvLog, waitVars>>

\* Lines 56-60: response_rx.recv() blocks for the reply; Err once
\* response_tx is dropped and nothing is buffered.
ExecRecv(c) ==
    /\ cpc[c] = "recv"
    /\ RecvReady(respChan, respTx)
    /\ IF respChan # <<>>
       THEN /\ ExecReturns(c, Head(respChan).res, Head(respChan).id)
            /\ respChan' = Tail(respChan)
            /\ doneLog' = Append(doneLog, Head(respChan).id)
       ELSE /\ ExecReturns(c, RecvError, 0)
            /\ UNCHANGED <<respChan, doneLog>>
    /\ UNCHANGED <<module, frontVars, workerVars, statusVars, oneshot,
                   handoffs, spc, interrupted, dropped, cmdChan, nexec, nsent,
                   recvLog, waitVars>>

\* The owner drops the Runtime (no exec or wait borrows it): command_tx and
\* response_rx go, the JoinHandle is dropped and the worker detached.
DropHandle ==
    /\ HandleLive
    /\ \A c \in Callers : cpc[c] = "idle"
    /\ waitpc = "idle"
    /\ dropped' = TRUE
    /\ respChan' = <<>>
    /\ UNCHANGED <<module, frontVars, workerVars, statusVars, oneshot,
                   handoffs, spc, interrupted, cmdChan, callerVars, recvLog,
                   waitVars>>

\* ------------------------------------ Exec Gateway (webserver/mod.rs)
\* Byte indicating the message channel.
STDOUT_CHANNEL == 1
STDERR_CHANNEL == 2

SeqsUpTo(S, n) == UNION {[1..k -> S] : k \in 0..n}

\* The key=value pairs requests are made of: well-formed command pairs, a
\* foreign key, and pairs with no "=", an empty key, an empty value, or a
\* second "=".
PairTexts ==
    {<<"command", "=", "add">>, <<"command", "=", "1">>,
     <<"command", "=", "2">>, <<"foo", "=", "bar">>, <<"command">>,
     <<"command", "=">>, <<"=", "1">>, <<"command", "=", "1", "=", "2">>,
     <<>>}

\* The pairs joined by "&".
RECURSIVE JoinPairs(_)
JoinPairs(ps) ==
    IF ps = <<>> THEN <<>>
    ELSE IF Len(ps) = 1 THEN ps[1]
    ELSE ps[1] \o <<"&">> \o JoinPairs(Tail(ps))

\* The raw query strings of the requests (warp::query::raw()).
Queries == {JoinPairs(ps) : ps \in SeqsUpTo(PairTexts, MaxPairs)}

\* What provider.exec(..) may return: the text of a result or of an error.
ProviderResults ==
    {Ok(<<"42">>), Ok(<<>>), SendError,
     Err(<<"No function found with name", "nope">>)}

IsPending(r) == ~r.ok /\ r.val = <<"pending">>

\* Lines 129-143: the tag byte followed by the bytes of the text
\* (format!("{}", e) of the error).
Message(result) ==
    IF result.ok THEN <<STDOUT_CHANNEL>> \o result.val
    ELSE <<STDERR_CHANNEL>> \o result.val

\* Lines 121-123 and 154: parse_exec_query(&query); on Err handle_exec
\* returns at once and the socket is dropped.
HandleExecParse ==
    /\ gpc = "parse"
    /\ opts' = parse_exec_query(query)
    /\ gpc' = IF parse_exec_query(query).ok THEN "exec" ELSE "done"
    /\ UNCHANGED <<runtimeVars, query, execResult, frames, peerOpen,
                   commandVars, coerceVars>>

\* Line 127: provider.exec(namespace, pod, container, opts).await returns.
HandleExecProvider(r) ==
    /\ gpc = "exec"
    /\ execResult' = r
    /\ gpc' = "forward"
    /\ UNCHANGED <<runtimeVars, query, opts, frames, peerOpen, commandVars,
                   coerceVars>>

\* Lines 129-153: the one Message of the stream is forwarded to ws_tx; a
\* send error (the peer is gone) is logged.
HandleExecForward ==
    /\ gpc = "forward"
    /\ frames' = IF peerOpen THEN Append(frames, Message(execResult))
                 ELSE frames
    /\ gpc' = "done"
    /\ UNCHANGED <<runtimeVars, query, opts, execResult, peerOpen,
                   commandVars, coerceVars>>

\* The client closes the connection while the request is being handled.
PeerClose ==
    /\ gpc \in {"parse", "exec", "forward"}
    /\ peerOpen
    /\ peerOpen' = FALSE
    /\ UNCHANGED <<runtimeVars, query, gpc, opts, execResult, frames,
                   commandVars, coerceVars>>

\* ------------------------------------ parse_command (exec/mod.rs 34-46)
CommandPieces == {"add", "1", "2", " "}
CommandLines == SeqsUpTo(CommandPieces, MaxCommandLen)

ParseCommand ==
    /\ IsPending(parsed)
    /\ parsed' = parse_command(cmdline)
    /\ UNCHANGED <<runtimeVars, gatewayVars, coerceVars, cmdline>>

\* ------------------------------- parse_args (wasi_runtime.rs 463-486)
\* Parameter types of an export (FuncType::params) and argument strings.
ParamTypes == {"i32", "i64", "f64", "funcref"}
ArgTexts == {"1", "2", "x"}

ParseArgs ==
    /\ IsPending(values)
    /\ values' = parse_args(funcType, argStrs)
    /\ UNCHANGED <<runtimeVars, gatewayVars, commandVars, funcType, argStrs>>

\* ------------------------------------------------------------ specification
WorkerStep ==
    \/ WorkerSetup
    \/ WorkerHandoff
    \/ WorkerLoad
    \/ WorkerLink
    \/ WorkerInstantiate
    \/ WorkerGetExport
    \/ WorkerDropCommandRx
    \/ WorkerDropResponseTx
    \/ WorkerCallStart
    \/ WorkerReturn
    \/ WorkerRecv
    \/ WorkerInvoke
    \/ WorkerRespond
    \/ WorkerPollReady
    \/ WorkerTrySend

ExecStep(c) ==
    \/ ExecLockTx(c)
    \/ ExecLockRx(c)
    \/ \E cmd \in Commands : ExecSend(c, cmd)
    \/ ExecRecv(c)

Next ==
    \/ WorkerStep
    \/ StartReturn
    \/ StatusRecv
    \/ StatusClose
    \/ Stop
    \/ WaitBegin
    \/ WaitJoin
    \/ \E c \in Callers : ExecCall(c)
    \/ \E c \in Callers : ExecStep(c)
    \/ DropHandle

Spec == Init /\ [][Next]_vars

\* The worker thread, the start future and tasks inside exec or wait keep
\* running; the status tracker drains its channel while it is open.
FairSpec ==
    /\ Spec
    /\ WF_vars(WorkerStep)
    /\ WF_vars(StartReturn)
    /\ WF_vars(StatusRecv)
    /\ WF_vars(WaitJoin)
    /\ \A c \in Callers : WF_vars(ExecStep(c))

\* The state of the workload runtime while only the gateway or a parser is
\* exercised: a command-serving worker that has just been spawned.
RuntimeIdle == RuntimeInit /\ module = Module("none", "none", "ok")

\* One WebSocket exec request (handle_exec) from its query string on.
GatewayInit ==
    /\ RuntimeIdle
    /\ CommandIdle
    /\ CoerceIdle
    /\ query \in Queries
    /\ gpc = "parse"
    /\ opts = Pending
    /\ execResult = Pending
    /\ frames = <<>>
    /\ peerOpen = TRUE

GatewayNext ==
    \/ HandleExecParse
    \/ \E r \in ProviderResults : HandleExecProvider(r)
    \/ HandleExecForward
    \/ PeerClose

GatewaySpec == GatewayInit /\ [][GatewayNext]_vars

\* parse_command applied to one string-form command.
ParseCommandInit ==
    /\ RuntimeIdle
    /\ GatewayIdle
    /\ CoerceIdle
    /\ cmdline \in CommandLines
    /\ parsed = Pending

ParseCommandNext == ParseCommand

ParseCommandSpec == ParseCommandInit /\ [][ParseCommandNext]_vars

\* parse_args applied to one parameter list and one argument list.
ParseArgsInit ==
    /\ RuntimeIdle
    /\ GatewayIdle
    /\ CommandIdle
    /\ funcType \in SeqsUpTo(ParamTypes, MaxParams)
    /\ argStrs \in SeqsUpTo(ArgTexts, MaxArgs)
    /\ values = Pending

ParseArgsNext == ParseArgs

ParseArgsSpec == ParseArgsInit /\ [][ParseArgsNext]_vars

\* ------------------------------------------------------------------- claims
IsTerminated(st) == st.type = "Terminated"
FailedStatus(st) == IsTerminated(st) /\ st.failed

\* The two status sequences the specification allows for a finished worker.
AllowedStatusSequences(seq) ==
    \/ Len(seq) = 1 /\ FailedStatus(seq[1])
    \/ Len(seq) = 2 /\ seq[1] = Running /\ IsTerminated(seq[2])

\* C1: once the worker of a started workload has finished (its subscriber
\* still listening), the Status events it emitted are [Terminated{failed}]
\* alone or [Running, Terminated], whichever mode it ran in.
C1_StatusSequence ==
    (wpc = "done" /\ handoffs = 1 /\ statusOpen)
        => AllowedStatusSequences(emitted)

\* C2: for a module with a designated entry point, every exec call that has
\* returned returned a ChannelError, never a function result, wherever the
\* call fell relative to the worker dropping its channel ends.
C2_EntryPointExecFails ==
    (module.start # "none" /\ last.caller # NoCaller)
        => (IsChannelError(last.res) /\ last.got = 0 /\ recvLog = <<>>)

\* C2 witness: an exec sent before the worker dropped its ends has returned
\* the receive error while the entry point is still running.
C2_Witness ==
    /\ module.start = "func"
    /\ wpc = "call"
    /\ last.res = RecvError

\* C3: without an entry point the worker takes the commands in the order
\* they were sent, one full request/response cycle at a time, and responses
\* are delivered in that same order.
C3_InSendOrder ==
    /\ \A i \in 1..Len(recvLog) : recvLog[i] = i
    /\ \A i \in 1..Len(doneLog) : doneLog[i] = i
    /\ Len(recvLog) <= Len(doneLog) + 1
    /\ Len(doneLog) <= Len(recvLog)

\* C3 witness: two exec calls in a row have been serviced and answered.
C3_Witness ==
    /\ module.start = "none"
    /\ recvLog = <<1, 2>>
    /\ doneLog = <<1, 2>>

\* Callers between their send and the return of exec.
InFlight == {c \in Callers : cpc[c] \in {"send", "recv"}}
\* Commands sent and not yet answered to their caller.
Outstanding ==
    Len(cmdChan) + Len(respChan) + (IF cur = NoCall THEN 0 ELSE 1)

\* C4: at most one exec is in flight per handle: callers serialize on the
\* two mutexes, the worker never holds or is sent a second command before
\* the first is answered, and each caller gets the response to its command.
C4_OneExecInFlight ==
    /\ Cardinality(InFlight) <= 1
    /\ Outstanding <= 1
    /\ \A c \in InFlight : txLock = c /\ rxLock = c
    /\ last.got # 0 => last.got = last.id

\* C4 witness: a second caller waits for the mutex while the first caller's
\* command is being serviced, after an earlier call already completed.
C4_Witness ==
    /\ \E c, d \in Callers :
         /\ c # d
         /\ cpc[c] = "recv"
         /\ cpc[d] = "lock_tx"
    /\ wpc = "invoke"

\* The entry point is a long-running interruptible loop, stop() has been
\* called while it runs, and a wait() is pending.
StoppedWhileLooping ==
    /\ module.start = "func"
    /\ module.run = "loop"
    /\ wpc = "call"
    /\ interrupted
    /\ waitpc = "waiting"

\* C5: stop() then wait() on a module running a long interruptible loop
\* eventually completes: wait() returns the worker's error and (unless the
\* thread panicked delivering it) a Terminated{failed:true} status has been
\* reported.
C5_StopThenWaitCompletes ==
    StoppedWhileLooping
        ~> (/\ waitpc = "idle"
            /\ waited = "err"
            /\ wret = "err" =>
                   \E i \in 1..Len(emitted) : FailedStatus(emitted[i]))

\* The stages whose failure is fatal before the module runs, and the
\* message of the status each reports.
FatalStages == {"load", "link", "instantiate"}
FatalMessage(stage) ==
    IF stage = "load" THEN "unable to create module"
    ELSE IF stage = "link" THEN "unable to load module"
    ELSE "unable to instantiate module"

\* C6: when loading, linking or instantiating fails, no Running is ever
\* emitted, the worker never returns success, wait() never returns Ok, and a
\* worker that has returned its error emitted exactly the one event
\* Terminated{failed:true}.
C6_FatalStageFailure ==
    module.fail \in FatalStages =>
        /\ Len(emitted) <= 1
        /\ \A i \in 1..Len(emitted) : emitted[i] # Running
        /\ wret # "ok"
        /\ waited # "ok"
        /\ wret = "err" =>
               emitted = <<Terminated(TRUE, FatalMessage(module.fail))>>

\* C6 witness: the import resolution failed, the worker returned its error
\* and a wait() has returned it.
C6_Witness ==
    /\ module.fail = "link"
    /\ wret = "err"
    /\ waited = "err"
    /\ emitted = <<Terminated(TRUE, "unable to load module")>>

\* What a command yields when serviced on its own with no interrupt pending
\* (NoResult for a call that does not return).
Serviced(cmd) ==
    IF Prepare(cmd) # NoResult THEN Prepare(cmd)
    ELSE IF Exports[cmd.function].run = "ok" THEN CallOk(cmd)
    ELSE IF Exports[cmd.function].run = "trap" THEN CallTrap("unreachable")
    ELSE NoResult

CommandServing == module.fail = "none" /\ module.start = "none"

\* C7: in command-serving mode a lookup, coercion or execution error is the
\* result of that call only: the worker stays in its dispatch loop while the
\* handle lives, no status other than Running is ever emitted, and every
\* answered call got what its own command yields, whatever came before it.
C7_ExecErrorsAreLocal ==
    CommandServing =>
        /\ \A i \in 1..Len(emitted) : emitted[i] = Running
        /\ (recvLog # <<>> /\ HandleLive)
               => wpc \in {"recv", "invoke", "respond"}
        /\ last.got # 0 =>
               \/ last.res = Serviced(last.cmd)
               \/ last.res = CallTrap("interrupt")

\* C7 witness: the first call failed its lookup and the worker has since
\* computed a successful result for the next call.
C7_Witness ==
    /\ CommandServing
    /\ doneLog = <<1>>
    /\ last.res = Err(<<"No function found with name", "nope">>)
    /\ wpc = "respond"
    /\ reply = Ok(<<"3">>)
    /\ emitted = <<Running>>

\* A caller is inside exec.
InExec(c) == cpc[c] # "idle"

\* The worker runs its entry point or has finished: its channel ends are
\* gone.
WorkerSideGone == wpc \in {"call", "done"}

\* Caller c can take its next step inside exec, or waits for the command_tx
\* mutex whose holder can.
CanProceed(c) ==
    \/ ENABLED ExecStep(c)
    \/ /\ cpc[c] = "lock_tx"
       /\ txLock \in Callers
       /\ ENABLED ExecStep(txLock)

\* C8: exec does not hang once the worker side of the channel pair is gone:
\* while the worker runs its entry point or has finished, no caller inside
\* exec is blocked (however long the entry point keeps running), and a
\* caller that leaves exec then leaves it with a ChannelError.
C8_ExecNeverHangs ==
    /\ [](WorkerSideGone => \A c \in Callers : InExec(c) => CanProceed(c))
    /\ [][\A c \in Callers :
            (WorkerSideGone /\ InExec(c) /\ cpc'[c] = "idle")
                => (last'.caller = c /\ IsChannelError(last'.res))]_vars

\* C8 witness: an exec has failed on its send while the entry point loops.
C8_Witness ==
    /\ module.run = "loop"
    /\ wpc = "call"
    /\ last.res = SendError

\* C9: the interrupt handle is handed over once, before the module is given
\* to the engine, and start() returns a handle only after taking it.
C9_InterruptHandedFirst ==
    /\ handoffs <= 1
    /\ sandboxRan => (handoffs = 1 /\ oneshot \in {"sent", "taken"})
    /\ spc = "handle" => (handoffs = 1 /\ oneshot = "taken")
    /\ spc = "error" => (handoffs = 0 /\ ~sandboxRan)
    /\ interrupted => spc = "handle"

\* C9 witness: stop() was called on the handle of a worker that aborted at
\* module load.
C9_Witness ==
    /\ module.fail = "load"
    /\ wpc = "done"
    /\ spc = "handle"
    /\ interrupted

\* C10: a second wait() on a handle whose worker was already joined by an
\* earlier wait() neither panics nor hangs.
C10_SecondWaitSafe == waitpc \notin {"panicked", "hung"}
\* C11: every WebSocket exec request that has ended with its client still
\* connected was answered with exactly one binary frame, written only after
\* the command was executed: tag byte 1 followed by the result text on
\* success, tag byte 2 followed by the error text on any failure (a query
\* that does not parse included); never zero frames, never more than one.
C11_OneFramePerRequest ==
    /\ Len(frames) <= 1
    /\ frames # <<>> => ~IsPending(execResult)
    /\ (gpc = "done" /\ peerOpen) =>
           /\ Len(frames) = 1
           /\ frames[1][1] = (IF opts.ok /\ execResult.ok THEN 1 ELSE 2)
           /\ Tail(frames[1]) = (IF opts.ok THEN execResult.val ELSE opts.val)
\* The pairs of a query string, and the key and value of a pair that has an
\* "=": the text before it and the text after it (up to a further "=").
PairsOf(q) == split(q, "&")
HasEquals(pair) == \E i \in 1..Len(pair) : pair[i] = "="
KeyOf(pair) == split(pair, "=")[1]
ValueOf(pair) == split(pair, "=")[2]
IsCommandPair(pair) == HasEquals(pair) /\ KeyOf(pair) = <<"command">>

\* The values of the pairs whose key is `command`, in encounter order.
CommandValues(q) ==
    LET pairs == SelectSeq(PairsOf(q), IsCommandPair)
    IN  [i \in 1..Len(pairs) |-> ValueOf(pairs[i])]

\* parse_exec_query has returned for the request.
QueryParsed == gpc \in {"exec", "forward", "done"}

\* C12: when the query of a request parses, the function of the Command is
\* the value of the first pair whose key is `command`, its args are the
\* values of all later `command` pairs in encounter order with duplicates
\* kept, pairs with another key contribute nothing, and the stdin, stdout,
\* stderr and tty flags are all false.
C12_CommandFromQuery ==
    (QueryParsed /\ opts.ok) =>
        /\ CommandValues(query) # <<>>
        /\ opts.val.command.function = Head(CommandValues(query))
        /\ opts.val.command.args = Tail(CommandValues(query))
        /\ ~opts.val.stdin /\ ~opts.val.stdout
        /\ ~opts.val.stderr /\ ~opts.val.tty

\* C12 witness: "command=add&command=1&command=1" parsed to add with the
\* duplicate argument kept.
C12_Witness ==
    /\ query = <<"command", "=", "add", "&", "command", "=", "1", "&",
                 "command", "=", "1">>
    /\ QueryParsed
    /\ opts.ok
    /\ opts.val.command = Command(<<"add">>, << <<"1">>, <<"1">> >>)

IsToken(t) == t # <<>>
Tokens(line) == SelectSeq(split(line, " "), IsToken)

\* The command is tokens separated by single spaces.
SingleSpaced(line) == Tokens(line) # <<>> /\ Tokens(line) = split(line, " ")

\* C14: parse_command fails on the empty string, and on tokens separated
\* by single spaces it returns the first token as the function name and
\* the remaining tokens, in order, as the args.
C14_ParseCommand ==
    ~IsPending(parsed) =>
        /\ cmdline = <<>> => ~parsed.ok
        /\ SingleSpaced(cmdline) =>
               /\ parsed.ok
               /\ parsed.val.function = Head(Tokens(cmdline))
               /\ parsed.val.args = Tail(Tokens(cmdline))

\* String s coerces to a value of parameter type ty.
Coerces(ty, s) == ty \in NumericTypes /\ IsNumeral(s)

\* Every parameter that has an argument string can be filled from it.
ProvidedCoerce(params, args) ==
    \A i \in 1..Len(params) : i <= Len(args) => Coerces(params[i], args[i])

SameResult(a, b) == a.ok = b.ok /\ a.val = b.val

\* C19: parse_args fills the declared parameters positionally, one string
\* each: with fewer args than parameters it fails, with "Not enough
\* arguments" when the args provided coerce; with at least as many args it
\* yields exactly one value per parameter from the first args in order, and
\* args beyond the parameter count change nothing.
C19_PositionalCoercion ==
    ~IsPending(values) =>
        /\ Len(argStrs) < Len(funcType) =>
               /\ ~values.ok
               /\ ProvidedCoerce(funcType, argStrs)
                      => values.val = <<"Not enough arguments">>
        /\ (Len(argStrs) >= Len(funcType)
               /\ ProvidedCoerce(funcType, argStrs)) =>
               /\ values.ok
               /\ Len(values.val) = Len(funcType)
               /\ \A i \in 1..Len(funcType) :
                      values.val[i] = Val(funcType[i], IntOf(argStrs[i]))
        /\ Len(argStrs) > Len(funcType) =>
               SameResult(values,
                          parse_args(funcType,
                                     SubSeq(argStrs, 1, Len(funcType))))

\* C19 witness: (i32, i32) with args ["1", "2", "x"] coerced to the two
\* values, the surplus "x" ignored.
C19_Witness ==
    /\ funcType = <<"i32", "i32">>
    /\ argStrs = <<"1", "2", "x">>
    /\ values.ok
    /\ values.val = <<Val("i32", 1), Val("i32", 2)>>
\* Positions of the worker inside the dispatch loop and on the entry-point
\* path.
LoopStates == {"recv", "invoke", "respond"}
EntryStates == {"drop_command_rx", "drop_response_tx", "call"}

\* C15: the exec mode follows from the module alone and the two modes
\* exclude each other: with an entry point both worker-side channel ends
\* are dropped before the entry point is called, the dispatch loop is never
\* entered and no command is ever taken; without one both ends stay open
\* throughout the dispatch loop and the entry-point path is never taken.
C15_ExecModeFixed ==
    /\ module.start # "none" =>
           /\ wpc \notin LoopStates
           /\ recvLog = <<>>
           /\ (wpc = "call" \/ startCalls # <<>>) => (~cmdRx /\ ~respTx)
    /\ module.start = "none" =>
           /\ wpc \notin EntryStates
           /\ startCalls = <<>>
           /\ wpc \in LoopStates => (cmdRx /\ respTx)

\* C15 witness: the entry point was called, and trapped, with both channel
\* ends already dropped.
C15_Witness ==
    /\ module.start = "func"
    /\ startCalls = <<"trap">>
    /\ wpc = "send_poll"
    /\ ~cmdRx
    /\ ~respTx

\* The module was instantiated and exports `_start`.
EntryPointMode == module.fail = "none" /\ module.start # "none"

\* Entry-point mode up to the call: Running is emitted, then both channel
\* ends are dropped, then the entry point is called, at most once; a
\* Terminated is the second and last event, and a worker that has returned
\* has emitted it.
EntryPointOrder ==
    /\ Len(startCalls) <= 1
    /\ wpc \in EntryStates => emitted = <<Running>>
    /\ wpc = "drop_command_rx" => (cmdRx /\ respTx /\ startCalls = <<>>)
    /\ wpc = "call" => (~cmdRx /\ ~respTx /\ startCalls = <<>>)
    /\ startCalls # <<>> =>
           (~cmdRx /\ ~respTx /\ emitted # <<>> /\ emitted[1] = Running)
    /\ \A i \in 1..Len(emitted) :
           IsTerminated(emitted[i]) => (i = 2 /\ Len(emitted) = 2)
    /\ wret \in {"ok", "err"} =>
           (Len(emitted) = 2 /\ IsTerminated(emitted[2]))

\* The Terminated event reports the one call of the entry point: failed
\* exactly when it trapped.
ReportsTheCall(st) ==
    /\ Len(startCalls) = 1
    /\ st.failed <=> startCalls[1] # "ok"

\* C16 as stated: in entry-point mode the worker emits Running, drops both
\* channel ends, calls the entry point exactly once and emits exactly one
\* Terminated, failed exactly when that call trapped.
C16_EntryPointSequence ==
    EntryPointMode =>
        /\ EntryPointOrder
        /\ \A i \in 1..Len(emitted) :
               IsTerminated(emitted[i]) => ReportsTheCall(emitted[i])

\* C16 amended: as above when the `_start` export is a function; when it is
\* not, nothing is called and the one Terminated has failed set.
C16_EntryPointSequenceOfFunction ==
    EntryPointMode =>
        /\ EntryPointOrder
        /\ \A i \in 1..Len(emitted) :
               IsTerminated(emitted[i]) =>
                   IF module.start = "func"
                   THEN ReportsTheCall(emitted[i])
                   ELSE startCalls = <<>> /\ emitted[i].failed

\* C16 witness: the looping entry point was interrupted; the worker
\* reported the failed termination and returned its error.
C16_Witness ==
    /\ module.start = "func"
    /\ startCalls = <<"interrupt">>
    /\ emitted = <<Running, Terminated(TRUE, "unable to run module")>>
    /\ wret = "err"

\* C17: in command-serving mode the worker leaves its dispatch loop only
\* when the handle side is gone, and then by terminating with an error;
\* while the handle lives it is in the loop, and it is never stuck at the
\* receive when a Command is buffered or the channel is closed.
C17_ServesUntilHandleDropped ==
    /\ []((CommandServing /\ recvLog # <<>> /\ HandleEndsAlive)
              => wpc \in LoopStates)
    /\ []((CommandServing /\ wpc = "recv"
              /\ (cmdChan # <<>> \/ ~HandleEndsAlive))
              => ENABLED WorkerRecv)
    /\ [][(CommandServing /\ wpc \in LoopStates /\ wpc' \notin LoopStates)
              => (~HandleEndsAlive /\ wpc' = "done" /\ wret' = "err")]_vars

\* C17 witness: two commands were serviced, the handle was dropped and the
\* worker terminated with its error.
C17_Witness ==
    /\ CommandServing
    /\ recvLog = <<1, 2>>
    /\ dropped
    /\ wpc = "done"
    /\ wret = "err"

\* C18: what the worker holds after servicing a Command is that Command's
\* result, success value or error, and its next step sends it on the reply
\* channel and returns to the receive; with the reply receiver gone the
\* step instead ends the worker with an error, no further Command taken.
C18_ResponseOrChannelError ==
    /\ [](wpc = "respond" =>
              /\ cur # NoCall
              /\ reply = Serviced(cur.cmd) \/ reply = CallTrap("interrupt")
              /\ ENABLED WorkerRespond)
    /\ [][(wpc = "respond" /\ wpc' # "respond") =>
              IF HandleEndsAlive
              THEN /\ respChan' =
                          Append(respChan, [id |-> cur.id, res |-> reply])
                   /\ wpc' = "recv"
              ELSE /\ wpc' = "done"
                   /\ wret' = "err"
                   /\ respChan' = respChan
                   /\ recvLog' = recvLog]_vars

\* C18 witness: the error result of the second Command is on the reply
\* channel and the worker is back at its receive.
C18_Witness ==
    /\ wpc = "recv"
    /\ respChan = <<[id |-> 2, res |-> CallTrap("unreachable")]>>

\* C20: a call whose lookup and coercion succeeded and whose export
\* trapped gets an execution error, and that error is not reported as an
\* argument parsing error.
C20_TrapIsExecutionError ==
    (CommandServing /\ last.got # 0 /\ Prepare(last.cmd) = NoResult
        /\ ~last.res.ok) =>
        /\ \E i \in 1..Len(last.res.val) :
               last.res.val[i] = "Error executing command"
        /\ \A i \in 1..Len(last.res.val) :
               last.res.val[i] # "Error parsing the args"
\* The worker is inside the send helper.
InSend == wpc \in {"send_poll", "send_try"}

\* What is in the status channel is the tail of what was emitted.
ChannelInEmissionOrder ==
    /\ Len(statusChan) <= Len(emitted)
    /\ statusChan = SubSeq(emitted, Len(emitted) - Len(statusChan) + 1,
                           Len(emitted))

\* C21: no status event is dropped under backpressure.  While the consumer
\* keeps its receiver, the helper holds the event until it is enqueued: it
\* passes poll_ready only when the channel has room, it leaves only by
\* appending the event to the channel, it is never stuck while there is
\* room, a full channel can always be drained, and the channel holds the
\* events in emission order.
C21_NoEventDropped ==
    /\ [](InSend => sending # NoStatus)
    /\ [](statusOpen =>
              (Len(statusChan) <= StatusCap /\ ChannelInEmissionOrder))
    /\ []((statusOpen /\ InSend) =>
              /\ ENABLED WorkerPollReady \/ ENABLED WorkerTrySend
              /\ Len(statusChan) = StatusCap => ENABLED StatusRecv)
    /\ [][(wpc = "send_poll" /\ wpc' = "send_try")
              => Len(statusChan) < StatusCap]_vars
    /\ [][(statusOpen' /\ InSend /\ (~InSend' \/ sending' # sending)) =>
              /\ emitted' = Append(emitted, sending)
              /\ statusChan' = Append(statusChan, sending)
              /\ wpc' = afterSend]_vars

\* C21 witness: the Terminated event is being retried against a full
\* channel whose consumer has not yet taken Running.
C21_Witness ==
    /\ statusOpen
    /\ wpc = "send_poll"
    /\ IsTerminated(sending)
    /\ statusChan = <<Running>>
    /\ Len(statusChan) = StatusCap

\* C22: a command-serving worker does not end while its handle lives: no
\* step, stop() and an interrupted call included, takes it out of the
\* dispatch loop while the handle-side ends exist, it never emits a
\* Terminated, and no wait() on its handle completes while it is in the
\* loop.  A worker of such a module that ended under a live handle never
\* reached the loop: its send of Running panicked in try_send.
C22_CommandServingNeverEnds ==
    /\ [](CommandServing =>
              \A i \in 1..Len(emitted) : ~IsTerminated(emitted[i]))
    /\ []((CommandServing /\ wpc \in LoopStates) =>
              (wret = "none" /\ waited = "none" /\ ~joined))
    /\ []((CommandServing /\ HandleEndsAlive /\ wpc = "done") =>
              (wret = "panic" /\ emitted = <<>> /\ recvLog = <<>>))
    /\ []((CommandServing /\ wpc \in LoopStates /\ HandleLive)
              => ~ENABLED WaitJoin)
    /\ [][(CommandServing /\ wpc \in LoopStates /\ HandleEndsAlive')
              => wpc' \in LoopStates]_vars

\* C22 witness: stop() interrupted a call, its caller got the error, and
\* the worker is back at its receive with a wait() still pending.
C22_Witness ==
    /\ CommandServing
    /\ HandleLive
    /\ last.res = CallTrap("interrupt")
    /\ wpc = "recv"
    /\ waitpc = "waiting"

\* C23: the send helper returns only by enqueuing its event, and a helper
\* that finds the receiver closed goes round its loop forever: the worker
\* never returns and a wait() on its handle never completes.
C23_SendSpinsOnClosedReceiver ==
    /\ [][(InSend /\ ~InSend' /\ wpc' # "done") =>
              /\ emitted' = Append(emitted, sending)
              /\ wpc' = afterSend]_vars
    /\ [][(wpc = "send_poll" /\ ~statusOpen) =>
              /\ wpc' = "send_poll"
              /\ sending' = sending
              /\ emitted' = emitted
              /\ wret' = "none"]_vars
    /\ []((wpc = "send_poll" /\ ~statusOpen) =>
              /\ wret = "none"
              /\ waited = "none"
              /\ ~ENABLED WaitJoin)

\* C23 witness: the module failed to load after the subscriber went away;
\* the worker spins on the Terminated event while a wait() is pending.
C23_Witness ==
    /\ module.fail = "load"
    /\ ~statusOpen
    /\ wpc = "send_poll"
    /\ sending = Terminated(TRUE, "unable to create module")
    /\ waitpc = "waiting"

LastEmitted == IF emitted = <<>> THEN NoStatus ELSE emitted[Len(emitted)]
CompletedStatus(st) == IsTerminated(st) /\ ~st.failed

\* C24: a finished worker returned success exactly when the last event it
\* emitted is Terminated{failed:false}, and wait() returns Ok exactly then;
\* a Terminated{failed:true} is the last event emitted and the worker then
\* returns an error.
C24_JoinAgreesWithStatus ==
    /\ wpc = "done" => (wret = "ok" <=> CompletedStatus(LastEmitted))
    /\ waited = "ok" <=> (joined /\ CompletedStatus(LastEmitted))
    /\ \A i \in 1..Len(emitted) :
           FailedStatus(emitted[i]) =>
               /\ i = Len(emitted)
               /\ wpc \in {"ret_err", "done"}
               /\ wret \in {"none", "err"}
               /\ wpc = "done" => wret = "err"

\* C24 witness: the entry point completed, the worker returned Ok and a
\* wait() returned it.
C24_Witness ==
    /\ emitted = <<Running, Terminated(FALSE, "Module run completed")>>
    /\ wret = "ok"
    /\ waited = "ok"

\* C25: start() returns a handle exactly when the interrupt handle was
\* handed off.  A worker that aborts before the handoff makes start()
\* return an error: no handle exists (nothing is ever called on one) and
\* the worker emits and attempts no status event.
C25_HandleIffHandoff ==
    /\ spc = "handle" => handoffs = 1
    /\ spc = "error" =>
           (handoffs = 0 /\ module.fail = "setup" /\ wpc = "done"
            /\ wret = "err")
    /\ (spc = "awaiting" /\ (handoffs = 1 \/ wpc = "done"))
           => ENABLED StartReturn
    /\ module.fail = "setup" =>
           /\ handoffs = 0
           /\ spc # "handle"
           /\ emitted = <<>>
           /\ sending = NoStatus
           /\ nexec = 0
           /\ ~interrupted
           /\ waitpc = "idle"

\* C25 witness: the context build failed, the worker returned its error
\* without a handoff and start() returned an error.
C25_Witness ==
    /\ module.fail = "setup"
    /\ wpc = "done"
    /\ wret = "err"
    /\ spc = "error"
    /\ emitted = <<>>
=============================================================================
